---- MODULE Spec2Model ----
(***************************************************************************)
(* Model of the cloud-architect MCP server: the tool-call dispatcher of    *)
(* its three variants (cloud_arch.ts, part_000, part_001) and the SSE      *)
(* session layer of runServer (GET /sse, POST /messages, connection        *)
(* close) around the single shared Server object.                          *)
(***************************************************************************)
EXTENDS Integers, Sequences, FiniteSets, TLC

VARIABLES
    variant,        \* which of the three server files is running
    advisor,        \* part_001: the fields of the AzureArchitectureAdvisor instance
    lastCall,       \* direct dispatch: the last CallTool request, or NoCall
    lastResult,     \* direct dispatch: what the handler did with lastCall
    advisorBefore,  \* direct dispatch: advisor as it was before lastCall
    transports,     \* runServer: the table sessionId -> SSEServerTransport
    serverTransport,\* the shared Server object's current transport (Protocol._transport)
    sseResponse,    \* per transport: whether its SSE stream is established
    connSid,        \* per accepted GET /sse connection: the sessionId of its transport
    connOpen,       \* the GET /sse connections whose response has not closed yet
    sink,           \* per connection: what was written to its response stream
    posts,          \* per POST /messages request: query id, body, progress, outcome
    issued,         \* history: every sessionId a transport was ever constructed with
    closedSids,     \* history: the sessionIds whose connection has closed
    received,       \* stdio: the requests read from stdin, in arrival order
    microtasks,     \* stdio: the promise jobs queued for the requests in flight
    stdout,         \* stdio: the responses written to stdout, in writing order
    process         \* the Node process: where runServer stands, and the exit code

dispatchVars == <<variant, advisor, lastCall, lastResult, advisorBefore>>
netVars == <<transports, serverTransport, sseResponse, connSid, connOpen, sink,
             posts, issued, closedSids>>
stdioVars == <<received, microtasks, stdout>>
vars == <<variant, advisor, lastCall, lastResult, advisorBefore, transports,
          serverTransport, sseResponse, connSid, connOpen, sink, posts, issued,
          closedSids, received, microtasks, stdout, process>>

(***************************************************************************)
(* JavaScript values, as far as the handlers look at them.                 *)
(***************************************************************************)
Undefined == [t |-> "undefined"]
Null == [t |-> "null"]
Str(s) == [t |-> "string", s |-> s]
Num(n) == [t |-> "number", n |-> n]
Bool(b) == [t |-> "boolean", b |-> b]
Arr(a) == [t |-> "array", a |-> a]
Obj(o) == [t |-> "object", o |-> o]
EmptyObj == Obj(<<>>)

Nullish(v) == v.t \in {"undefined", "null"}

\* ToBoolean
Truthy(v) ==
    CASE v.t = "undefined" -> FALSE
      [] v.t = "null" -> FALSE
      [] v.t = "boolean" -> v.b
      [] v.t = "number" -> v.n # 0
      [] v.t = "string" -> v.s # ""
      [] OTHER -> TRUE

\* an || that always takes its right operand
OrElseSecond(a, b) == b

\* a || b
OrElse(a, b) == IF Truthy(a) THEN a ELSE b

\* typeof v
TypeOf(v) ==
    CASE v.t = "null" -> "object"
      [] v.t = "array" -> "object"
      [] OTHER -> v.t

\* v[k] for a v that is not null or undefined (own properties and length)
Prop(v, k) ==
    CASE v.t = "object" -> IF k \in DOMAIN v.o THEN v.o[k] ELSE Undefined
      [] v.t = "array" /\ k = "length" -> Num(Len(v.a))
      [] v.t = "string" /\ k = "length" -> Num(Len(v.s))
      [] OTHER -> Undefined

\* the message of the TypeError that v.k raises when v is null or undefined
ReadError(v, k) ==
    "Cannot read properties of " \o v.t \o " (reading '" \o k \o "')"

\* v?.k
OptProp(v, k) == IF Nullish(v) THEN Undefined ELSE Prop(v, k)

RECURSIVE SetToSeq(_)
SetToSeq(S) ==
    IF S = {} THEN <<>>
    ELSE LET x == CHOOSE y \in S : \A z \in S : y <= z
         IN <<x>> \o SetToSeq(S \ {x})

RECURSIVE KeySeq(_)
KeySeq(S) ==
    IF S = {} THEN <<>>
    ELSE LET x == CHOOSE y \in S : TRUE
         IN <<Str(x)>> \o KeySeq(S \ {x})

\* Object.keys(v) for a v that is not null or undefined
ObjectKeys(v) ==
    CASE v.t = "object" -> Arr(KeySeq(DOMAIN v.o))
      [] OTHER -> Arr(<<>>)

(***************************************************************************)
(* JSON.stringify(value, null, 2).  The text is represented by the JSON    *)
(* document it spells: members whose value is undefined are left out and   *)
(* an undefined array element is written as null.  JSON.parse gives the    *)
(* document back as a value.                                               *)
(***************************************************************************)
RECURSIVE Jsonify(_)
Jsonify(v) ==
    CASE v.t = "object" ->
            Obj([k \in {j \in DOMAIN v.o : v.o[j] # Undefined} |-> Jsonify(v.o[k])])
      [] v.t = "array" ->
            Arr([i \in 1..Len(v.a) |->
                    IF v.a[i] = Undefined THEN Null ELSE Jsonify(v.a[i])])
      [] OTHER -> v

JSONStringify(v) == [kind |-> "json", doc |-> Jsonify(v)]
PlainText(s) == [kind |-> "plain", s |-> s]
JSONParse(text) == text.doc

(***************************************************************************)
(* Results of running a function body: it returns a value or it throws.    *)
(***************************************************************************)
Return(v) == [ok |-> TRUE, val |-> v]
Throw(m) == [ok |-> FALSE, msg |-> m]

TOOL_NAME == "design_azure_architecture"

TextEnvelope(text) == [content |-> <<[type |-> "text", text |-> text]>>]
ErrorEnvelope(text) ==
    [content |-> <<[type |-> "text", text |-> text]>>, isError |-> TRUE]

IsError(env) == "isError" \in DOMAIN env /\ env.isError

\* the catch blocks: { error: message, status: 'failed' }, isError: true
FailedEnvelope(msg) ==
    ErrorEnvelope(JSONStringify(Obj([error |-> Str(msg), status |-> Str("failed")])))

\* the fall-through return of every CallTool handler
UnknownToolEnvelope(name) == ErrorEnvelope(PlainText("Unknown tool: " \o name))

(***************************************************************************)
(* The fields of ArchitectureInquiryData, in declaration order.            *)
(***************************************************************************)
InquiryFields ==
    {"question", "questionNumber", "totalQuestions", "answer", "nextQuestionNeeded",
     "requirementCategory", "isFollowUp", "followsQuestionNumber",
     "architectureSuggested", "architectureComponent", "detailLevel",
     "domainSpecific", "requirementIdentified", "technicalConstraint",
     "designPatternSuggested", "serviceDetails", "architectureTier"}

\* part_000 reads seven of them
Part000Fields ==
    {"question", "questionNumber", "totalQuestions", "nextQuestionNeeded", "answer",
     "architectureComponent", "architectureTier"}

(***************************************************************************)
(* cloud_arch.ts, the client-managed variant: the body of the try block.   *)
(***************************************************************************)
CloudArchTryBody(data) ==
    IF Nullish(data) THEN Throw(ReadError(data, "question"))
    ELSE
    LET input == [k \in InquiryFields |-> Prop(data, k)]
        state == Prop(data, "state")
        metrics == IF Nullish(state) THEN Undefined ELSE Prop(state, "calculatedMetrics")
    IN  IF Nullish(state) THEN Throw(ReadError(state, "display"))
        ELSE IF Nullish(Prop(state, "followUpQuestions"))
            THEN Throw("Cannot convert undefined or null to object")
        ELSE IF Nullish(Prop(state, "questionHistory"))
            THEN Throw(ReadError(Prop(state, "questionHistory"), "length"))
        ELSE IF Nullish(Prop(state, "architectureComponents"))
            THEN Throw(ReadError(Prop(state, "architectureComponents"), "length"))
        ELSE IF Nullish(Prop(state, "identifiedRequirements"))
            THEN Throw(ReadError(Prop(state, "identifiedRequirements"), "length"))
        ELSE IF Nullish(Prop(state, "technicalConstraints"))
            THEN Throw(ReadError(Prop(state, "technicalConstraints"), "length"))
        ELSE IF Nullish(Prop(state, "designPatterns"))
            THEN Throw(ReadError(Prop(state, "designPatterns"), "length"))
        ELSE Return(TextEnvelope(JSONStringify(Obj(
            [display_text |->
                OrElse(OptProp(Prop(state, "display"), "displayText"), input.question),
             questionNumber |-> input.questionNumber,
             totalQuestions |-> input.totalQuestions,
             nextQuestionNeeded |-> input.nextQuestionNeeded,
             followUpQuestions |-> ObjectKeys(Prop(state, "followUpQuestions")),
             questionHistoryLength |-> Prop(Prop(state, "questionHistory"), "length"),
             architectureStatus |-> Obj(
                [componentsCount |-> Prop(Prop(state, "architectureComponents"), "length"),
                 requirementsCount |-> Prop(Prop(state, "identifiedRequirements"), "length"),
                 constraintsCount |-> Prop(Prop(state, "technicalConstraints"), "length"),
                 designPatternsCount |-> Prop(Prop(state, "designPatterns"), "length"),
                 completenessPercentage |->
                    OrElse(OptProp(metrics, "completenessPercentage"), Num(0)),
                 emptyTiers |-> OrElse(OptProp(metrics, "emptyTiers"), Arr(<<>>)),
                 tierComponentCounts |->
                    OrElse(OptProp(metrics, "tierComponentCounts"), EmptyObj)]),
             state |-> state]))))

\* a handler that lets the failure of its body escape (no try/catch)
UncaughtTryCatch(body) ==
    IF body.ok THEN [kind |-> "return", env |-> body.val]
    ELSE [kind |-> "raise", msg |-> body.msg]

\* try { body } catch (error) { return the failed envelope }
TryCatch(body) ==
    IF body.ok THEN [kind |-> "return", env |-> body.val]
    ELSE [kind |-> "return", env |-> FailedEnvelope(body.msg)]

(***************************************************************************)
(* part_000, the caller-stateful variant: the body of the try block.       *)
(***************************************************************************)
Part000TryBody(data) ==
    IF Nullish(data) THEN Throw(ReadError(data, "question"))
    ELSE
    LET input == [k \in Part000Fields |-> Prop(data, k)]
        state == Prop(data, "state")
    IN  IF Nullish(state) THEN Throw(ReadError(state, "thought"))
        ELSE Return(TextEnvelope(JSONStringify(Obj(
            [display_text |-> input.question,
             display_thought |-> Prop(state, "thought"),
             display_hint |-> Prop(state, "suggestedHint"),
             questionNumber |-> input.questionNumber,
             totalQuestions |-> input.totalQuestions,
             nextQuestionNeeded |-> input.nextQuestionNeeded,
             state |-> state]))))

(***************************************************************************)
(* part_001, the server-accumulating variant: AzureArchitectureAdvisor.    *)
(***************************************************************************)
TierOrder == <<"infrastructure", "platform", "application", "data", "security",
               "operations">>
Tiers == {TierOrder[i] : i \in 1..Len(TierOrder)}

\* the field initialisers of the class
NewAdvisor ==
    [questionHistory |-> <<>>,
     followUpQuestions |-> <<>>,
     architectureComponents |-> {},
     identifiedRequirements |-> {},
     technicalConstraints |-> {},
     designPatterns |-> {},
     serviceTiers |-> [t \in Tiers |-> {}]]

ValidateInquiryData(data) ==
    IF Nullish(data) THEN Throw(ReadError(data, "question"))
    ELSE IF ~Truthy(Prop(data, "question")) \/ TypeOf(Prop(data, "question")) # "string"
        THEN Throw("Invalid question: must be a string")
    ELSE IF ~Truthy(Prop(data, "questionNumber"))
            \/ TypeOf(Prop(data, "questionNumber")) # "number"
        THEN Throw("Invalid questionNumber: must be a number")
    ELSE IF ~Truthy(Prop(data, "totalQuestions"))
            \/ TypeOf(Prop(data, "totalQuestions")) # "number"
        THEN Throw("Invalid totalQuestions: must be a number")
    ELSE IF TypeOf(Prop(data, "nextQuestionNeeded")) # "boolean"
        THEN Throw("Invalid nextQuestionNeeded: must be a boolean")
    ELSE Return([k \in InquiryFields |-> Prop(data, k)])

\* formatInquiry only writes to the console; what matters is whether it throws:
\* detailLevel.toUpperCase() and serviceDetails.alternatives.join(', ')
FormatInquiryError(vi) ==
    IF Truthy(vi.detailLevel) /\ vi.detailLevel.t # "string"
        THEN "detailLevel.toUpperCase is not a function"
    ELSE IF Truthy(vi.serviceDetails)
            /\ Truthy(Prop(vi.serviceDetails, "alternatives"))
            /\ Prop(Prop(vi.serviceDetails, "alternatives"), "length").t = "number"
            /\ Prop(Prop(vi.serviceDetails, "alternatives"), "length").n > 0
            /\ Prop(vi.serviceDetails, "alternatives").t # "array"
        THEN "serviceDetails.alternatives.join is not a function"
    ELSE ""

\* String.prototype.trim on the question texts the model draws
Trim(s) == IF s = " Q2 " THEN "Q2" ELSE s

\* the key under which followUpQuestions files a number
FollowKey(v) == v.n

\* this.serviceTiers[architectureTier] is one of the six sets
TierKnown(v) == v.t = "string" /\ v.s \in Tiers

AddIfTruthy(set, v) == IF Truthy(v) THEN set \cup {v} ELSE set

\* a percentage cut off instead of rounded
CompletenessPctTruncated(nonEmpty) == (100 * nonEmpty) \div Len(TierOrder)

\* Math.round(nonEmpty / 6 * 100)
CompletenessPct(nonEmpty) == (200 * nonEmpty + Len(TierOrder)) \div (2 * Len(TierOrder))

AdvisorResponse(adv, vi) ==
    LET nonEmpty == Cardinality({t \in Tiers : adv.serviceTiers[t] # {}})
        displayText == IF Truthy(vi.isFollowUp) THEN Str(Trim(vi.question.s))
                       ELSE vi.question
        keys == SetToSeq(DOMAIN adv.followUpQuestions)
    IN  TextEnvelope(JSONStringify(Obj(
            [display_text |-> displayText,
             questionNumber |-> vi.questionNumber,
             totalQuestions |-> vi.totalQuestions,
             nextQuestionNeeded |-> vi.nextQuestionNeeded,
             followUpQuestions |-> Arr([i \in 1..Len(keys) |-> Num(keys[i])]),
             questionHistoryLength |-> Num(Len(adv.questionHistory)),
             architectureStatus |-> Obj(
                [componentsCount |-> Num(Cardinality(adv.architectureComponents)),
                 requirementsCount |-> Num(Cardinality(adv.identifiedRequirements)),
                 constraintsCount |-> Num(Cardinality(adv.technicalConstraints)),
                 designPatternsCount |-> Num(Cardinality(adv.designPatterns)),
                 completenessPercentage |-> Num(CompletenessPct(nonEmpty)),
                 emptyTiers |->
                    Arr([i \in 1..Len(SelectSeq(TierOrder,
                                                LAMBDA t : adv.serviceTiers[t] = {}))
                         |-> Str(SelectSeq(TierOrder,
                                           LAMBDA t : adv.serviceTiers[t] = {})[i])]),
                 tierComponentCounts |->
                    Obj([t \in Tiers |-> Num(Cardinality(adv.serviceTiers[t]))])])])))

\* a processInquiry that leaves the estimate as submitted
AdjustTotalNever(vi) == vi

\* if (questionNumber > totalQuestions) totalQuestions = questionNumber
AdjustTotal(vi) ==
    IF vi.questionNumber.n > vi.totalQuestions.n
    THEN [vi EXCEPT !.totalQuestions = vi.questionNumber]
    ELSE vi

\* the four Set.add calls
TrackInput(adv, vi) ==
    [adv EXCEPT
        !.architectureComponents = AddIfTruthy(@, vi.architectureComponent),
        !.identifiedRequirements = AddIfTruthy(@, vi.requirementIdentified),
        !.technicalConstraints = AddIfTruthy(@, vi.technicalConstraint),
        !.designPatterns = AddIfTruthy(@, vi.designPatternSuggested)]

\* architectureTier && architectureComponent
FiledInTier(vi) == Truthy(vi.architectureTier) /\ Truthy(vi.architectureComponent)

\* this.serviceTiers[architectureTier].add(architectureComponent), tier known
FileInTier(adv, vi) ==
    IF FiledInTier(vi)
    THEN [adv EXCEPT !.serviceTiers[vi.architectureTier.s] =
                        @ \cup {vi.architectureComponent}]
    ELSE adv

\* this.questionHistory.push(validatedInput)
PushHistory(adv, vi) == [adv EXCEPT !.questionHistory = Append(@, vi)]

\* the followUpQuestions bookkeeping
FileFollowUp(adv, vi) ==
    IF ~(Truthy(vi.isFollowUp) /\ Truthy(vi.followsQuestionNumber)) THEN adv
    ELSE [adv EXCEPT !.followUpQuestions =
            [k \in DOMAIN @ \cup {FollowKey(vi.followsQuestionNumber)} |->
                IF k # FollowKey(vi.followsQuestionNumber) THEN @[k]
                ELSE IF k \in DOMAIN @ THEN Append(@[k], vi)
                ELSE <<vi>>]]

\* formatInquiry, the statistics and the return statement
FormatAndAnswer(adv, vi) ==
    IF FormatInquiryError(vi) # ""
    THEN [res |-> Throw(FormatInquiryError(vi)), adv |-> adv]
    ELSE [res |-> Return(AdvisorResponse(adv, vi)), adv |-> adv]

\* the try block after validation
ProcessValidated(adv, vi) ==
    IF FiledInTier(vi) /\ ~TierKnown(vi.architectureTier)
    THEN [res |-> Throw(ReadError(Undefined, "add")), adv |-> TrackInput(adv, vi)]
    ELSE FormatAndAnswer(
            FileFollowUp(PushHistory(FileInTier(TrackInput(adv, vi), vi), vi), vi), vi)

\* processInquiry, the body of its try block: what it returns or throws, and the
\* advisor's fields when it does
ProcessInquiryTryBody(adv, input) ==
    IF ~ValidateInquiryData(input).ok
    THEN [res |-> ValidateInquiryData(input), adv |-> adv]
    ELSE ProcessValidated(adv, AdjustTotal(ValidateInquiryData(input).val))

\* processInquiry: try { body } catch { failed envelope }
ProcessInquiry(adv, input) ==
    LET body == ProcessInquiryTryBody(adv, input)
    IN  [out |-> TryCatch(body.res), adv |-> body.adv]

(***************************************************************************)
(* The CallToolRequestSchema handler of each variant: what it returns (or  *)
(* raises) for a request, and the advisor's fields afterwards.             *)
(***************************************************************************)
Variants == {"cloud_arch", "part_000", "part_001"}

\* a dispatcher that knows no tool at all
IsRegisteredNone(name) == FALSE

\* a handler that takes every name for the registered one
IsRegisteredAny(name) == TRUE

\* request.params.name === "design_azure_architecture"
IsRegistered(name) == name = TOOL_NAME

\* a dispatcher whose every variant keeps the advisor's running totals
CallToolAccumulating(v, name, args, adv) ==
    IF IsRegistered(name) THEN ProcessInquiry(adv, args)
    ELSE [out |-> [kind |-> "return", env |-> UnknownToolEnvelope(name)], adv |-> adv]

CallTool(v, name, args, adv) ==
    IF IsRegistered(name)
    THEN CASE v = "cloud_arch" -> [out |-> TryCatch(CloudArchTryBody(args)), adv |-> adv]
           [] v = "part_000" -> [out |-> TryCatch(Part000TryBody(args)), adv |-> adv]
           [] v = "part_001" -> ProcessInquiry(adv, args)
    ELSE [out |-> [kind |-> "return", env |-> UnknownToolEnvelope(name)], adv |-> adv]

\* a registry that drops the tool once the advisor has recorded a call
ListToolsUntilCalled == IF advisor = NewAdvisor THEN <<TOOL_NAME>> ELSE <<>>

\* ListToolsRequestSchema handler: tools: [AZURE_ARCHITECTURE_TOOL]
ListTools == <<TOOL_NAME>>

(***************************************************************************)
(* The requests the model draws.  Arguments arrive as parsed JSON, so no   *)
(* member is undefined: a missing field is a missing key.                  *)
(***************************************************************************)
FullState ==
    Obj([questionHistory |-> Arr(<<>>),
         followUpQuestions |-> Obj([q1 |-> Arr(<<>>)]),
         architectureComponents |-> Arr(<<Str("App Service")>>),
         identifiedRequirements |-> Arr(<<>>),
         technicalConstraints |-> Arr(<<>>),
         designPatterns |-> Arr(<<>>),
         serviceTiers |-> Obj([application |-> Arr(<<Str("App Service")>>)])])

With(obj, k, v) ==
    Obj([j \in DOMAIN obj.o \cup {k} |-> IF j = k THEN v ELSE obj.o[j]])
Without(obj, k) == Obj([j \in DOMAIN obj.o \ {k} |-> obj.o[j]])

StatePool ==
    {FullState,
     EmptyObj,
     With(FullState, "display", Obj([displayText |-> Str("shown")])),
     With(FullState, "display", Obj([displayText |-> Str("")])),
     With(FullState, "calculatedMetrics",
          Obj([completenessPercentage |-> Num(17),
               emptyTiers |-> Arr(<<Str("data")>>),
               tierComponentCounts |-> Obj([application |-> Num(1)])])),
     Without(FullState, "designPatterns"),
     Obj([thought |-> Str("thinking"), architectureComponents |-> Arr(<<>>)]),
     Str("oops"),
     Null}

BaseArgs ==
    Obj([question |-> Str("Q1"), questionNumber |-> Num(1), totalQuestions |-> Num(8),
         nextQuestionNeeded |-> Bool(TRUE), state |-> FullState])

RequiredFields ==
    {"question", "questionNumber", "totalQuestions", "nextQuestionNeeded", "state"}

\* one field of the valid request replaced
FieldValues ==
    [question |-> {Num(7), Str("")},
     questionNumber |-> {Str("1"), Num(0), Num(-1), Num(9)},
     totalQuestions |-> {Str("8"), Num(0)},
     nextQuestionNeeded |-> {Str("yes")},
     state |-> StatePool \ {FullState},
     detailLevel |-> {Num(3)},
     serviceDetails |->
        {Obj([name |-> Str("Cosmos DB"), purpose |-> Str("db"),
              alternatives |-> Str("MongoDB")])}]

\* requests that set several optional fields together
Combined ==
    {With(With(BaseArgs, "architectureComponent", Str("Cosmos DB")),
          "architectureTier", Str("data")),
     With(With(BaseArgs, "architectureComponent", Str("Key Vault")),
          "architectureTier", Str("security")),
     With(With(BaseArgs, "architectureComponent", Str("Front Door")),
          "architectureTier", Str("network")),
     With(With(With(BaseArgs, "isFollowUp", Bool(TRUE)),
               "followsQuestionNumber", Num(1)), "question", Str(" Q2 ")),
     With(With(With(With(With(BaseArgs, "answer", Str("A1")),
                         "requirementIdentified", Str("HA")),
                    "technicalConstraint", Str("EU only")),
               "designPatternSuggested", Str("CQRS")),
          "detailLevel", Str("high"))}

ArgsPool ==
    {Undefined, BaseArgs}
    \cup {Without(BaseArgs, k) : k \in RequiredFields}
    \cup UNION {{With(BaseArgs, k, v) : v \in FieldValues[k]} : k \in DOMAIN FieldValues}
    \cup Combined

ToolNames == {TOOL_NAME, "nonexistent_tool", ""}

Calls ==
    {[name |-> TOOL_NAME, args |-> a] : a \in ArgsPool}
    \cup {[name |-> n, args |-> a] :
            n \in ToolNames \ {TOOL_NAME},
            a \in {Undefined, BaseArgs}}

(***************************************************************************)
(* Direct dispatch: requests handed to the CallTool handler one after the  *)
(* other, as the one connected transport of stdio mode does.               *)
(***************************************************************************)
MaxHistory == 2

NoCall == [none |-> TRUE]

\* the Server holds no transport (Protocol._transport is undefined)
NoTransport == 0

NetInit ==
    /\ transports = <<>>
    /\ serverTransport = NoTransport
    /\ sseResponse = <<>>
    /\ connSid = <<>>
    /\ connOpen = {}
    /\ sink = <<>>
    /\ posts = <<>>
    /\ issued = {}
    /\ closedSids = {}

\* runServer has returned: the HTTP server listens, or the Server is connected
\* to the stdio transport
Listening == [pc |-> "listening", bindFailed |-> FALSE]
OnStdio == [pc |-> "stdio", bindFailed |-> FALSE]

StdioInit ==
    /\ received = <<>>
    /\ microtasks = <<>>
    /\ stdout = <<>>

DispatchInit ==
    /\ variant \in Variants
    /\ advisor = NewAdvisor
    /\ lastCall = NoCall
    /\ lastResult = NoCall
    /\ advisorBefore = NewAdvisor
    /\ NetInit
    /\ StdioInit
    /\ process = OnStdio

Dispatch(c) ==
    LET r == CallTool(variant, c.name, c.args, advisor)
    IN  /\ Len(r.adv.questionHistory) <= MaxHistory
        /\ lastCall' = c
        /\ lastResult' = r.out
        /\ advisorBefore' = advisor
        /\ advisor' = r.adv
        /\ UNCHANGED <<variant, transports, serverTransport, sseResponse, connSid,
                       connOpen, sink, posts, issued, closedSids>>
        /\ UNCHANGED <<stdioVars, process>>

DispatchNext == \E c \in Calls : Dispatch(c)

SpecDispatch == DispatchInit /\ [][DispatchNext]_vars

(***************************************************************************)
(* Network mode (runServer with --sse).  Every handler runs to its first   *)
(* await in one step: Node runs one callback at a time.  A transport       *)
(* object is named by the connection (the express Response) it was built   *)
(* on; serverTransport = NoTransport means the Server holds none.          *)
(***************************************************************************)
MaxConns == 2
MaxPosts == 2


\* crypto.randomUUID() of each new SSEServerTransport: an id never handed out before
UuidPool == <<"a1b2", "c3d4", "e5f6", "0a1b", "2c3d", "4e5f">>
NewSessionId == UuidPool[Cardinality(issued) + 1]

\* names every JavaScript object inherits from Object.prototype
ObjectPrototypeKeys ==
    {"constructor", "toString", "valueOf", "hasOwnProperty", "isPrototypeOf",
     "propertyIsEnumerable", "toLocaleString", "__proto__"}

\* transports[sessionId] on the plain object the table is
TableLookup(table, key) ==
    IF key \in DOMAIN table THEN [found |-> "own", conn |-> table[key]]
    ELSE IF key \in ObjectPrototypeKeys THEN [found |-> "inherited"]
    ELSE [found |-> "none"]

\* a table that forgets its other entries on insertion
TablePutOnly(table, key, c) == [k \in {key} |-> c]

\* transports[transport.sessionId] = transport
TablePut(table, key, c) ==
    [k \in DOMAIN table \cup {key} |-> IF k = key THEN c ELSE table[k]]

\* a close listener that clears the whole table
TableDeleteAll(table, key) == [k \in {} |-> table[k]]

\* a close listener that leaves the entry in the table
TableDeleteNothing(table, key) == table

\* delete transports[transport.sessionId]
TableDelete(table, key) == [k \in DOMAIN table \ {key} |-> table[k]]

\* the requests POSTed in network mode
NetCalls ==
    {[name |-> TOOL_NAME, args |-> BaseArgs],
     [name |-> "nonexistent_tool", args |-> Undefined]}

\* the sessionId query values a client may send
QueryIds == issued \cup {"zzzz", "constructor"}

\* a handshake that builds its transport on the response object of the first
ReusedConn == IF DOMAIN connSid = {} THEN Cardinality(DOMAIN connSid) + 1
              ELSE CHOOSE c \in DOMAIN connSid : \A d \in DOMAIN connSid : c <= d

\* the response object (res) of the GET /sse being handled: a new one each time
NextConn == Cardinality(DOMAIN connSid) + 1

Extend(f, k, v) == [j \in DOMAIN f \cup {k} |-> IF j = k THEN v ELSE f[j]]

\* app.get("/sse"): new transport, table entry, close listener, server.connect.
\* started = FALSE: connect raises (the catch answers 500); the Server's
\* transport field is then either already assigned or still the old one.
GetSse(started, assigned) ==
    LET c == NextConn
        sid == NewSessionId
    IN  /\ c <= MaxConns
        /\ started => assigned
        /\ transports' = TablePut(transports, sid, c)
        /\ connSid' = Extend(connSid, c, sid)
        /\ connOpen' = connOpen \cup {c}
        /\ issued' = issued \cup {sid}
        /\ serverTransport' = IF assigned THEN c ELSE serverTransport
        /\ sseResponse' = Extend(sseResponse, c, started)
        /\ sink' = Extend(sink, c,
                IF started THEN <<[event |-> "endpoint", sessionId |-> sid]>>
                ELSE <<[event |-> "http", status |-> 500]>>)
        /\ UNCHANGED <<variant, advisor, lastCall, lastResult, advisorBefore, posts,
                       closedSids>>
        /\ UNCHANGED <<stdioVars, process>>

\* res.on("close"): the handler's listener deletes the table entry; the
\* transport's own listener (registered by start) drops the stream and calls
\* onclose, on which the Server forgets its transport
CloseConn(c) ==
    /\ c \in connOpen
    /\ connOpen' = connOpen \ {c}
    /\ transports' = TableDelete(transports, connSid[c])
    /\ closedSids' = closedSids \cup {connSid[c]}
    /\ sseResponse' = [sseResponse EXCEPT ![c] = FALSE]
    /\ serverTransport' = IF sseResponse[c] THEN NoTransport ELSE serverTransport
    /\ UNCHANGED <<variant, advisor, lastCall, lastResult, advisorBefore, connSid,
                   sink, posts, issued>>
    /\ UNCHANGED <<stdioVars, process>>

\* the status app.post("/messages") answers with before any await
PostStatus(found) ==
    CASE found.found = "none" -> 400
      [] found.found = "inherited" -> 500
      [] found.found = "own" /\ ~sseResponse[found.conn] -> 500
      [] OTHER -> 0

\* app.post("/messages") up to the await of the request body inside
\* transport.handlePostMessage
PostMessages(q, call) ==
    LET found == TableLookup(transports, q)
        status == PostStatus(found)
    IN  /\ Len(posts) < MaxPosts
        /\ posts' = Append(posts,
                [sessionId |-> q, call |-> call,
                 conn |-> IF found.found = "own" THEN found.conn ELSE NoTransport,
                 pc |-> IF status = 0 THEN "body" ELSE "done",
                 status |-> status, result |-> NoCall])
        /\ UNCHANGED <<variant, advisor, lastCall, lastResult, advisorBefore,
                       transports, serverTransport, sseResponse, connSid, connOpen,
                       sink, issued, closedSids>>
        /\ UNCHANGED <<stdioVars, process>>

\* the transport the Server writes a response to: the one it holds now
ResponseTransport(r) == serverTransport

\* a send that lets the data of two responses run into each other
SseWriteMixing(stream, frame) ==
    LET last == stream[Len(stream)]
    IN  IF last.event = "message"
        THEN Append([stream EXCEPT ![Len(stream)].result = frame.result],
                    [frame EXCEPT !.result = last.result])
        ELSE Append(stream, frame)

\* SSEServerTransport.send: the whole frame (event line, data line, blank line)
\* goes to the stream in one write
SseWrite(stream, frame) == Append(stream, frame)

\* handlePostMessage after the body is read: the message goes to the Server,
\* the handler runs, the response (a JSON-RPC error if the handler raised) is
\* sent on the Server's transport (dropped when it holds none or the stream is
\* gone), and the POST is answered 202
PostBody(r) ==
    LET call == posts[r].call
        res == CallTool(variant, call.name, call.args, advisor)
        t == ResponseTransport(r)
        payload == IF res.out.kind = "return" THEN res.out.env
                   ELSE [rpcError |-> res.out.msg]
    IN  /\ r \in DOMAIN posts
        /\ posts[r].pc = "body"
        /\ advisor' = res.adv
        /\ sink' = IF t # NoTransport /\ sseResponse[t]
                   THEN [sink EXCEPT ![t] = SseWrite(@,
                            [event |-> "message", id |-> r, result |-> payload])]
                   ELSE sink
        /\ posts' = [posts EXCEPT ![r].pc = "done", ![r].status = 202,
                                  ![r].result = payload]
        /\ UNCHANGED <<variant, lastCall, lastResult, advisorBefore, transports,
                       serverTransport, sseResponse, connSid, connOpen, issued,
                       closedSids>>
        /\ UNCHANGED <<stdioVars, process>>

Init ==
    /\ variant \in Variants
    /\ advisor = NewAdvisor
    /\ lastCall = NoCall
    /\ lastResult = NoCall
    /\ advisorBefore = NewAdvisor
    /\ NetInit
    /\ StdioInit
    /\ process = Listening

Next ==
    \/ \E started, assigned \in BOOLEAN : GetSse(started, assigned)
    \/ \E c \in connOpen : CloseConn(c)
    \/ \E q \in QueryIds, call \in NetCalls : PostMessages(q, call)
    \/ \E r \in DOMAIN posts : PostBody(r)

Spec == Init /\ [][Next]_vars

(***************************************************************************)
(* Properties of network mode, checked under Spec.                         *)
(***************************************************************************)
\* the responses written to connection c's stream for request r
ResponsesIn(c, r) ==
    {i \in 1..Len(sink[c]) : sink[c][i].event = "message" /\ sink[c][i].id = r}

\* the connections whose stream holds a response to request r
SinksHolding(r) == {c \in DOMAIN sink : ResponsesIn(c, r) # {}}

LastPost == posts[Len(posts)]

\* every GET /sse so far was answered with an event stream
AllHandshakesSucceeded ==
    \A c \in DOMAIN sink : sink[c][1].event = "endpoint"

\* C1: the response to a tool call POSTed with session id S is written to the
\* stream of session S and to no other session's stream.
C1_ResponseOnlyToOwnSession ==
    \A r \in DOMAIN posts : \A c \in SinksHolding(r) : connSid[c] = posts[r].sessionId

\* C2: every accepted request of a session that is still connected has produced,
\* once its POST is answered, exactly one response envelope, in that session's
\* stream (stated for the runs in which no handshake failed).
C2_ExactlyOneResponse ==
    \A r \in DOMAIN posts :
        (/\ AllHandshakesSucceeded
         /\ posts[r].pc = "done" /\ posts[r].status = 202 /\ posts[r].conn \in connOpen)
        => /\ SinksHolding(r) = {posts[r].conn}
           /\ Cardinality(ResponsesIn(posts[r].conn, r)) = 1

\* C3: a POST whose sessionId is not a key of the table is answered 400 and
\* leaves the table as it was.
C3_UnknownSessionRejected ==
    [][\A q \in QueryIds, call \in NetCalls :
          (PostMessages(q, call) /\ q \notin DOMAIN transports)
          => /\ LastPost'.status = 400
             /\ LastPost'.pc = "done"
             /\ transports' = transports]_vars

\* C4: the close of session S removes exactly S's entry; every other session
\* keeps its entry and its stream, and a request of a still-connected session
\* handled after some other session closed is answered on its own stream
\* (stated for the runs in which no handshake failed).
C4_CloseLeavesOthersWorking ==
    [][/\ \A c \in connOpen :
            CloseConn(c)
            => /\ DOMAIN transports' = DOMAIN transports \ {connSid[c]}
               /\ \A k \in DOMAIN transports' : transports'[k] = transports[k]
               /\ \A d \in DOMAIN sink : sink'[d] = sink[d]
       /\ \A r \in DOMAIN posts :
            (/\ PostBody(r) /\ AllHandshakesSucceeded
             /\ posts[r].conn \in connOpen /\ closedSids # {})
            => ResponsesIn(posts[r].conn, r)' # {}]_vars

C6_ClosedIsTerminal ==
    [][/\ closedSids' \cap DOMAIN transports' = {}
       /\ \A q \in closedSids, call \in NetCalls :
            PostMessages(q, call) => LastPost'.status = 400 /\ LastPost'.pc = "done"]_vars

C6_Witness ==
    /\ \E r \in DOMAIN posts :
            posts[r].sessionId \in closedSids /\ posts[r].status = 400
    /\ Cardinality(DOMAIN connSid) = MaxConns
    /\ closedSids \cap DOMAIN transports = {}
    /\ DOMAIN transports # {}

(***************************************************************************)
(* Properties of the CallTool handlers, checked under SpecDispatch.        *)
(***************************************************************************)
Called == lastCall # NoCall

\* the one text block of an envelope
OnlyText(env) == env.content[1].text

IsTextEnvelope(env) ==
    /\ DOMAIN env \subseteq {"content", "isError"}
    /\ Len(env.content) = 1
    /\ env.content[1].type = "text"

\* what the try block of the running variant did with the last call
LastBody ==
    CASE variant = "cloud_arch" -> CloudArchTryBody(lastCall.args)
      [] variant = "part_000" -> Part000TryBody(lastCall.args)
      [] variant = "part_001" -> ProcessInquiryTryBody(advisorBefore, lastCall.args).res

\* the five required fields are there, each of the type the input schema gives it
RequiredWellTyped(args) ==
    /\ args.t = "object"
    /\ RequiredFields \subseteq DOMAIN args.o
    /\ args.o.question.t = "string"
    /\ args.o.questionNumber.t = "number"
    /\ args.o.totalQuestions.t = "number"
    /\ args.o.nextQuestionNeeded.t = "boolean"
    /\ args.o.state.t = "object"

\* and the numbers are at least 1
ValidRequest(args) ==
    /\ RequiredWellTyped(args)
    /\ args.o.questionNumber.n >= 1
    /\ args.o.totalQuestions.n >= 1

\* C7: a call of the registered tool with all required fields and a state object
\* is answered with a document whose state member equals the submitted state,
\* in every variant.
C7_StateReturnedUnchanged ==
    (Called /\ lastCall.name = TOOL_NAME /\ ValidRequest(lastCall.args))
    => /\ lastResult.kind = "return"
       /\ OnlyText(lastResult.env).kind = "json"
       /\ "state" \in DOMAIN JSONParse(OnlyText(lastResult.env)).o
       /\ JSONParse(OnlyText(lastResult.env)).o.state = lastCall.args.o.state

\* C8: a call of any other tool name returns, whatever the arguments and the
\* calls before it, an isError envelope whose one text block is
\* "Unknown tool: <name>", and raises nothing.
C8_UnknownToolAnswered ==
    (Called /\ lastCall.name # "design_azure_architecture")
    => /\ lastResult.kind = "return"
       /\ IsTextEnvelope(lastResult.env)
       /\ IsError(lastResult.env)
       /\ OnlyText(lastResult.env) =
            [kind |-> "plain", s |-> "Unknown tool: " \o lastCall.name]
       /\ advisor = advisorBefore

C8_Witness ==
    /\ Called
    /\ lastCall.name = "nonexistent_tool"
    /\ variant = "part_001"
    /\ Len(advisorBefore.questionHistory) = MaxHistory
    /\ IsError(lastResult.env)

\* C9: a call of the registered tool never raises out of the handler, and when
\* its try block throws, the envelope returned has isError true and the text
\* is the JSON of {error: <the message thrown>, status: "failed"}.
C9_FailuresCaught ==
    (Called /\ lastCall.name = "design_azure_architecture")
    => /\ lastResult.kind = "return"
       /\ IsTextEnvelope(lastResult.env)
       /\ ~LastBody.ok =>
            /\ IsError(lastResult.env)
            /\ OnlyText(lastResult.env).kind = "json"
            /\ JSONParse(OnlyText(lastResult.env)) =
                 [t |-> "object",
                  o |-> [error |-> [t |-> "string", s |-> LastBody.msg],
                         status |-> [t |-> "string", s |-> "failed"]]]

\* a missing state object, caught in each of the two variants that read it, and
\* an unknown tier, caught in the third
C9_Witness ==
    /\ Called
    /\ lastCall.name = TOOL_NAME
    /\ ~LastBody.ok
    /\ IsError(lastResult.env)
    /\ \/ /\ variant \in {"cloud_arch", "part_000"}
          /\ lastCall.args.t = "object"
          /\ "state" \notin DOMAIN lastCall.args.o
       \/ /\ variant = "part_001"
          /\ lastCall.args.t = "object"
          /\ "architectureTier" \in DOMAIN lastCall.args.o
          /\ lastCall.args.o.architectureTier.s \notin Tiers

\* C10: a call of the registered tool with a required field missing or of the
\* wrong type returns an isError envelope, and a valid call made right after
\* it returns a normal one.
C10_InvalidRejectedThenUsable ==
    [][/\ (lastCall'.name = TOOL_NAME /\ ~RequiredWellTyped(lastCall'.args))
            => (lastResult'.kind = "return" /\ IsError(lastResult'.env))
       /\ (/\ Called /\ lastCall.name = TOOL_NAME /\ ~RequiredWellTyped(lastCall.args)
           /\ lastCall'.name = TOOL_NAME /\ ValidRequest(lastCall'.args))
            => (lastResult'.kind = "return" /\ ~IsError(lastResult'.env))]_vars

(***************************************************************************)
(* Further properties of network mode, checked under Spec.                 *)
(***************************************************************************)
\* C11: a POST whose session id is a key of the table is not answered 400 or
\* 500, and once it is answered 202 the stream of its still-connected session
\* holds a response envelope (one text block and the isError flag) for it;
\* 400 and 500 go only to POSTs whose id is no key of the table (stated for
\* the runs in which no handshake failed).
C11_InTablePostGetsEnvelope ==
    \A r \in DOMAIN posts :
        AllHandshakesSucceeded
        => /\ posts[r].status \in {400, 500} => posts[r].conn = NoTransport
           /\ (/\ posts[r].conn # NoTransport
               /\ posts[r].pc = "done"
               /\ posts[r].conn \in connOpen)
              => \E i \in ResponsesIn(posts[r].conn, r) :
                    IsTextEnvelope(sink[posts[r].conn][i].result)

(***************************************************************************)
(* Stdio mode (runServer without --sse): one StdioServerTransport on the   *)
(* shared Server.  A chunk read from stdin holds one or more whole         *)
(* requests; each is handed to the Server at once, which queues a promise  *)
(* job that runs the handler and, when the handler's promise has settled,  *)
(* a job that writes the response to stdout.  Promise jobs run first in,   *)
(* first out, and stdin is read again only when no job is left.            *)
(***************************************************************************)
MaxRequests == 3

\* the requests a client writes to stdin
StdioRequests ==
    {[method |-> "tools/list", name |-> "", args |-> Undefined],
     [method |-> "tools/call", name |-> TOOL_NAME, args |-> BaseArgs],
     [method |-> "tools/call", name |-> TOOL_NAME,
      args |-> With(BaseArgs, "state", EmptyObj)],
     [method |-> "tools/call", name |-> "nonexistent_tool", args |-> Undefined]}

\* what one read of stdin may deliver
Chunks == UNION {[1..n -> StdioRequests] : n \in 1..MaxRequests}

\* a tool handler that awaits once before it returns
HandlerAwaitsInTool(req) == IF req.method = "tools/call" THEN 1 ELSE 0

\* the awaits inside a request handler: the handlers are async functions
\* without any await
HandlerAwaits(req) == 0

\* the Server's dispatch of a request to the handler registered for its method
HandleRequest(v, req, adv) ==
    IF req.method = "tools/list"
    THEN [out |-> [kind |-> "return", env |-> [tools |-> ListTools]], adv |-> adv]
    ELSE CallTool(v, req.name, req.args, adv)

\* a chunk arrives on stdin: every request in it is taken up, in order
ReadChunk(cs) ==
    /\ microtasks = <<>>
    /\ Len(received) + Len(cs) <= MaxRequests
    /\ received' = received \o cs
    /\ microtasks' = [i \in 1..Len(cs) |->
            [id |-> Len(received) + i, pc |-> "handler", hops |-> 0, out |-> NoCall]]
    /\ UNCHANGED <<dispatchVars, netVars, stdout, process>>

\* the first job of the queue runs the handler of its request
RunHandler ==
    /\ microtasks # <<>>
    /\ Head(microtasks).pc = "handler"
    /\ LET m == Head(microtasks)
           res == HandleRequest(variant, received[m.id], advisor)
       IN  /\ advisor' = res.adv
           /\ microtasks' = Append(Tail(microtasks),
                    [id |-> m.id, pc |-> "settle",
                     hops |-> HandlerAwaits(received[m.id]), out |-> res.out])
    /\ UNCHANGED <<variant, lastCall, lastResult, advisorBefore, netVars, received,
                   stdout, process>>

\* the first job of the queue waits on for the handler's promise, or writes
\* the response to stdout
SendResponse ==
    /\ microtasks # <<>>
    /\ Head(microtasks).pc = "settle"
    /\ LET m == Head(microtasks)
       IN  IF m.hops > 0
           THEN /\ microtasks' = Append(Tail(microtasks), [m EXCEPT !.hops = @ - 1])
                /\ stdout' = stdout
           ELSE /\ microtasks' = Tail(microtasks)
                /\ stdout' = Append(stdout, [id |-> m.id, out |-> m.out])
    /\ UNCHANGED <<dispatchVars, netVars, received, process>>

StdioNext ==
    \/ \E cs \in Chunks : ReadChunk(cs)
    \/ RunHandler
    \/ SendResponse

StdioModeInit ==
    /\ variant \in Variants
    /\ advisor = NewAdvisor
    /\ lastCall = NoCall
    /\ lastResult = NoCall
    /\ advisorBefore = NewAdvisor
    /\ NetInit
    /\ StdioInit
    /\ process = OnStdio

SpecStdio == StdioModeInit /\ [][StdioNext]_vars

(***************************************************************************)
(* Properties of stdio mode, checked under SpecStdio.                      *)
(***************************************************************************)
\* C12: the responses on stdout are in the order in which their requests were
\* received, one per request, and when nothing is in flight every request
\* received has its response.
C12_StdioFifo ==
    /\ \A i \in DOMAIN stdout : stdout[i].id = i
    /\ Len(stdout) <= Len(received)
    /\ microtasks = <<>> => Len(stdout) = Len(received)

\* three requests in flight at once, a tool call first, and the first answered
C12_Witness ==
    /\ Len(received) = MaxRequests
    /\ received[1].method = "tools/call"
    /\ received[2].method = "tools/list"
    /\ Len(microtasks) = 2
    /\ Len(stdout) = 1
    /\ stdout[1].id = 1

C14_NoWriteAfterClose ==
    [][\A r \in DOMAIN posts :
          (PostBody(r) /\ AllHandshakesSucceeded /\ posts[r].conn \notin connOpen)
          => /\ posts'[r].pc = "done"
             /\ posts'[r].result # NoCall
             /\ sink' = sink]_vars

(***************************************************************************)
(* Further properties of the CallTool handlers, checked under SpecDispatch.*)
(***************************************************************************)
\* the document carried by the one text block of the last envelope
LastDoc == JSONParse(OnlyText(lastResult.env))

\* the call {question: q, questionNumber: 1, totalQuestions: 8,
\* nextQuestionNeeded: true, state: {}} for some text q
IsScenarioCall(c) ==
    /\ c.name = TOOL_NAME
    /\ c.args.t = "object"
    /\ DOMAIN c.args.o = RequiredFields
    /\ c.args.o.question.t = "string"
    /\ c.args.o.questionNumber = Num(1)
    /\ c.args.o.totalQuestions = Num(8)
    /\ c.args.o.nextQuestionNeeded = Bool(TRUE)
    /\ c.args.o.state = EmptyObj

\* C15: in the two variants that take a state, the call with question q,
\* questionNumber 1, totalQuestions 8, nextQuestionNeeded true and state {} is
\* answered by a non-error envelope whose document has display_text = q,
\* questionNumber = 1 and state = {}.
C15_ScenarioAnswered ==
    (Called /\ variant \in {"cloud_arch", "part_000"} /\ IsScenarioCall(lastCall))
    => /\ lastResult.kind = "return"
       /\ ~IsError(lastResult.env)
       /\ OnlyText(lastResult.env).kind = "json"
       /\ {"display_text", "questionNumber", "state"} \subseteq DOMAIN LastDoc.o
       /\ LastDoc.o.display_text = lastCall.args.o.question
       /\ LastDoc.o.questionNumber = Num(1)
       /\ LastDoc.o.state = EmptyObj

\* the member of the response document an input field is carried in
PayloadKey(k) == IF k = "question" THEN "display_text" ELSE k

\* C16: in the two pass-through variants, a valid call of the registered tool
\* that is answered without error has every recognized input field of the
\* request in the response document (question as display_text), with the
\* value the request gave it.
C16_InputFieldsCopied ==
    (/\ Called /\ variant \in {"cloud_arch", "part_000"}
     /\ lastCall.name = TOOL_NAME /\ ValidRequest(lastCall.args)
     /\ lastResult.kind = "return" /\ ~IsError(lastResult.env))
    => \A k \in InquiryFields \cap DOMAIN lastCall.args.o :
          /\ PayloadKey(k) \in DOMAIN LastDoc.o
          /\ k # "question" => LastDoc.o[k] = lastCall.args.o[k]

(***************************************************************************)
(* Further properties of stdio mode, checked under SpecStdio.              *)
(***************************************************************************)
\* C17: in cloud_arch.ts two tool calls with the same name and arguments are
\* answered by the same envelope, whatever was called between and before
\* them.
C17_ClientManagedIsStateless ==
    variant = "cloud_arch"
    => \A i, j \in DOMAIN stdout :
          (/\ received[stdout[i].id].method = "tools/call"
           /\ received[stdout[i].id] = received[stdout[j].id])
          => stdout[i].out = stdout[j].out

\* the same valid call answered first and third, a failing call between them
C17_Witness ==
    /\ variant = "cloud_arch"
    /\ Len(stdout) = 3
    /\ received[1] = [method |-> "tools/call", name |-> TOOL_NAME, args |-> BaseArgs]
    /\ received[3] = received[1]
    /\ received[2].method = "tools/call"
    /\ received[2] # received[1]
    /\ IsError(stdout[2].out.env)
    /\ ~IsError(stdout[3].out.env)

(***************************************************************************)
(* Properties of the session table, checked under Spec.                    *)
(***************************************************************************)
\* C18: no two entries of the table refer to the same stream, and the stream
\* an entry refers to is the one opened for that entry's session id.
C18_OneSinkPerSession ==
    /\ \A k1, k2 \in DOMAIN transports :
            k1 # k2 => transports[k1] # transports[k2]
    /\ \A k \in DOMAIN transports :
            /\ transports[k] \in DOMAIN sink
            /\ connSid[transports[k]] = k

\* as many sessions as the bound allows, each entry with a stream of its own
\* that was opened with the entry's session id
C18_Witness ==
    /\ Cardinality(DOMAIN transports) = MaxConns
    /\ Cardinality({transports[k] : k \in DOMAIN transports}) = MaxConns
    /\ \A k \in DOMAIN transports :
            sink[transports[k]][1] = [event |-> "endpoint", sessionId |-> k]

(***************************************************************************)
(* Properties of the tool registry, checked under SpecStdio.               *)
(***************************************************************************)
\* C19: every tools/list request is answered with the same list, the one
\* descriptor named design_azure_architecture, whatever tool calls were
\* handled before it.
C19_ListToolsStable ==
    \A i \in DOMAIN stdout :
        received[stdout[i].id].method = "tools/list"
        => stdout[i].out =
             [kind |-> "return", env |-> [tools |-> <<"design_azure_architecture">>]]

\* the tools listed before and after a call that the advisor recorded
C19_Witness ==
    /\ variant = "part_001"
    /\ Len(stdout) = 3
    /\ received[1].method = "tools/list"
    /\ received[2].method = "tools/call"
    /\ received[3].method = "tools/list"
    /\ Len(advisor.questionHistory) = 1
    /\ stdout[1].out = stdout[3].out

(***************************************************************************)
(* Properties of the handlers' input checks, checked under SpecDispatch.   *)
(***************************************************************************)
\* C20: a call of the registered tool whose required fields have the right
\* types but whose questionNumber or totalQuestions is below 1 is answered
\* with an isError envelope.
C20_NumbersBelowOneRejected ==
    (/\ Called /\ lastCall.name = TOOL_NAME /\ RequiredWellTyped(lastCall.args)
     /\ \/ lastCall.args.o.questionNumber.n < 1
        \/ lastCall.args.o.totalQuestions.n < 1)
    => (lastResult.kind = "return" /\ IsError(lastResult.env))

(***************************************************************************)
(* The process from its start: runServer picks the transport from the      *)
(* command line.  With --sse it builds the express app and calls           *)
(* app.listen(port, callback) without awaiting it and without an 'error'   *)
(* listener; otherwise it connects the Server to a StdioServerTransport.   *)
(* A rejection of runServer is caught and the process exits with code 1.   *)
(***************************************************************************)
\* what --port names: a port the process can bind, one already bound, or no
\* port number at all (as --port=abc, parsed to NaN)
PortStates == {"free", "inUse", "invalid"}

Exited(code, bindFailed) == [pc |-> "exited", bindFailed |-> bindFailed, exitCode |-> code]

\* runServer, and what follows from app.listen.  An invalid port makes
\* listen throw inside runServer: the catch exits with 1.  A port in use is
\* reported later by the http server's 'error' event, which never reaches the
\* catch: either nothing listens to it and Node ends the process for the
\* uncaught error with code 1, or (errorToCallback) express hands the error to
\* the listen callback, which takes no argument and logs that the server is
\* running, and the process, left with nothing to wait for, ends with code 0.
RunServer(useSSE, port, errorToCallback) ==
    /\ process.pc = "starting"
    /\ process' =
          IF ~useSSE THEN OnStdio
          ELSE CASE port = "free" -> Listening
                 [] port = "invalid" -> Exited(1, TRUE)
                 [] port = "inUse" ->
                      IF errorToCallback THEN Exited(0, TRUE) ELSE Exited(1, TRUE)
    /\ UNCHANGED <<dispatchVars, netVars, stdioVars>>

ProcessInit ==
    /\ variant \in Variants
    /\ advisor = NewAdvisor
    /\ lastCall = NoCall
    /\ lastResult = NoCall
    /\ advisorBefore = NewAdvisor
    /\ NetInit
    /\ StdioInit
    /\ process = [pc |-> "starting", bindFailed |-> FALSE]

ProcessNext ==
    \/ \E useSSE, errorToCallback \in BOOLEAN, port \in PortStates :
            RunServer(useSSE, port, errorToCallback)
    \/ process.pc = "listening" /\ Next
    \/ process.pc = "stdio" /\ StdioNext

SpecProcess == ProcessInit /\ [][ProcessNext]_vars

(***************************************************************************)
(* Properties of the process, checked under SpecProcess.                   *)
(***************************************************************************)
\* C21: once runServer is through, the process has exited exactly when the
\* listening port could not be bound, and then with exit code 1.
C21_ExitOneOnBindFailure ==
    /\ process.pc = "exited" => (process.bindFailed /\ process.exitCode = 1)
    /\ (process.pc # "starting" /\ process.bindFailed) => process.pc = "exited"

(***************************************************************************)
(* Further properties of the session table, checked under Spec.            *)
(***************************************************************************)
\* C22: a key leaves the table only in the step in which the connection it
\* was filed for closes, and every connection that has not closed has its
\* entry.
C22_EntryRemovedOnlyByOwnClose ==
    [][/\ \A k \in DOMAIN transports :
            k \notin DOMAIN transports'
            => \E c \in connOpen : connSid[c] = k /\ CloseConn(c)
       /\ \A c \in connOpen' :
            connSid'[c] \in DOMAIN transports' /\ transports'[connSid'[c]] = c]_vars

\* the first session still filed after a later handshake, the close of that
\* other session, a rejected POST and an accepted one
C22_Witness ==
    /\ connOpen = {1}
    /\ Cardinality(DOMAIN connSid) = MaxConns
    /\ DOMAIN transports = {connSid[1]}
    /\ \E r \in DOMAIN posts : posts[r].status \in {400, 500}
    /\ \E r \in DOMAIN posts : posts[r].status = 202

(***************************************************************************)
(* Properties of the server-accumulating variant (part_001), checked under *)
(* SpecDispatch.                                                           *)
(***************************************************************************)
\* the last call was a call of the registered tool to part_001 that was
\* answered without error
AdvisorAnswered ==
    /\ Called /\ variant = "part_001" /\ lastCall.name = TOOL_NAME
    /\ lastResult.kind = "return" /\ ~IsError(lastResult.env)

\* C23: a successful response of part_001 has totalQuestions >= questionNumber:
\* it returns the submitted questionNumber as totalQuestions when that exceeds
\* the submitted totalQuestions, and the submitted totalQuestions otherwise.
C23_TotalCoversQuestionNumber ==
    AdvisorAnswered
    => /\ LastDoc.o.questionNumber = lastCall.args.o.questionNumber
       /\ LastDoc.o.totalQuestions.n >= LastDoc.o.questionNumber.n
       /\ LastDoc.o.totalQuestions =
            IF lastCall.args.o.questionNumber.n > lastCall.args.o.totalQuestions.n
            THEN lastCall.args.o.questionNumber
            ELSE lastCall.args.o.totalQuestions

\* question 9 of 8 answered as question 9 of 9
C23_Witness ==
    /\ AdvisorAnswered
    /\ lastCall.args.o.questionNumber.n > lastCall.args.o.totalQuestions.n
    /\ LastDoc.o.totalQuestions = lastCall.args.o.questionNumber

\* the components the calls recorded so far filed in tier t
RecordedInTier(t) ==
    {advisor.questionHistory[i].architectureComponent :
        i \in {j \in DOMAIN advisor.questionHistory :
                  /\ FiledInTier(advisor.questionHistory[j])
                  /\ advisor.questionHistory[j].architectureTier = Str(t)}}

Distance(a, b) == IF a >= b THEN a - b ELSE b - a

\* 100 * n / 6 rounded to the nearest integer
NearestPct(n) ==
    CHOOSE p \in 0..100 :
        \A q \in 0..100 : Distance(6 * p, 100 * n) <= Distance(6 * q, 100 * n)

LastStatus == LastDoc.o.architectureStatus.o

CloudArchAnswered ==
    /\ Called /\ variant = "cloud_arch" /\ lastCall.name = TOOL_NAME
    /\ lastResult.kind = "return" /\ ~IsError(lastResult.env)

\* state.display?.displayText of the last call
SubmittedDisplayText == OptProp(Prop(lastCall.args.o.state, "display"), "displayText")

\* C25 as stated: the display_text of a successful response of cloud_arch.ts
\* equals the submitted question.
C25_DisplayTextIsQuestion ==
    (CloudArchAnswered /\ "question" \in DOMAIN lastCall.args.o)
    => /\ "display_text" \in DOMAIN LastDoc.o
       /\ LastDoc.o.display_text = lastCall.args.o.question

\* C25 amended: the display_text of a successful response of cloud_arch.ts is
\* the displayText of the submitted state's display member when that is there
\* and not empty, and the submitted question otherwise.
C25_DisplayTextFromStateOrQuestion ==
    (CloudArchAnswered /\ "question" \in DOMAIN lastCall.args.o)
    => /\ "display_text" \in DOMAIN LastDoc.o
       /\ LastDoc.o.display_text =
            IF Truthy(SubmittedDisplayText) THEN SubmittedDisplayText
            ELSE lastCall.args.o.question

\* a state whose display text differs from the question: the state's text
\* is what comes back
C25_Witness ==
    /\ CloudArchAnswered
    /\ Truthy(SubmittedDisplayText)
    /\ SubmittedDisplayText # lastCall.args.o.question
    /\ LastDoc.o.display_text = SubmittedDisplayText

(***************************************************************************)
(* Properties of part_001 in network mode, checked under Spec.             *)
(***************************************************************************)
\* C26: in part_001 the answer to the only request a session has submitted is
\* the answer a server that has handled no request at all gives to it,
\* whatever the other sessions submitted before.
C26_SessionsDoNotShareTotals ==
    \A r \in DOMAIN posts :
        (/\ variant = "part_001"
         /\ posts[r].status = 202
         /\ \A q \in DOMAIN posts \ {r} : posts[q].sessionId # posts[r].sessionId)
        => posts[r].result =
             CallTool("part_001", posts[r].call.name, posts[r].call.args,
                      NewAdvisor).out.env

(***************************************************************************)
(* Further properties of part_001, checked under SpecDispatch.             *)
(***************************************************************************)
\* C27: a call of the registered tool to part_001 that is answered with an
\* isError envelope leaves every field of the advisor as it was before the
\* call.
C27_FailedCallLeavesAdvisor ==
    (/\ Called /\ variant = "part_001" /\ lastCall.name = TOOL_NAME
     /\ lastResult.kind = "return" /\ IsError(lastResult.env))
    => advisor = advisorBefore

(***************************************************************************)
(* Properties of the handshake, checked under Spec.                        *)
(***************************************************************************)
\* C28: a GET /sse whose server.connect raises is answered 500 and leaves the
\* table as it was before the request.
C28_FailedHandshakeLeavesTable ==
    [][\A assigned \in BOOLEAN :
          GetSse(FALSE, assigned)
          => /\ sink'[NextConn] = <<[event |-> "http", status |-> 500]>>
             /\ transports' = transports]_vars

(***************************************************************************)
(* Registry and dispatcher together, checked under SpecDispatch.           *)
(***************************************************************************)
\* the names listTools returns
ListedNames == {ListTools[i] : i \in DOMAIN ListTools}

\* C29: in every variant a call of a name that listTools returns is not
\* answered with "Unknown tool: <name>", and a call of any other name is.
C29_RegistryAndDispatcherAgree ==
    Called
    => /\ lastResult.kind = "return"
       /\ IsTextEnvelope(lastResult.env)
       /\ lastCall.name \in ListedNames
            <=> OnlyText(lastResult.env) #
                  [kind |-> "plain", s |-> "Unknown tool: " \o lastCall.name]

\* the listed name called without arguments: an error, but not an unknown tool
C29_Witness ==
    /\ Called
    /\ lastCall.name \in ListedNames
    /\ lastCall.args = Undefined
    /\ IsError(lastResult.env)
    /\ OnlyText(lastResult.env).kind = "json"

====
